---------------------------- MODULE Spec2Model ----------------------------
(***************************************************************************)
(* Model of codevis.py: the PythonConverter (syntax tree -> Construct      *)
(* tree), the ProjectManager (initial build of the project tree from a     *)
(* directory, and the five file monitor hooks that keep it up to date) and *)
(* the FileMonitor's dispatch of inotify events to those hooks.            *)
(*                                                                         *)
(* Strings are sequences of character codes (ASCII), so that sorting,      *)
(* startswith/endswith, split/join and os.path.split are computed as the   *)
(* code computes them.  Python's None is represented by NoneName for a     *)
(* name and by the flag nochildren for a children list.                    *)
(***************************************************************************)
EXTENDS Integers, Sequences, FiniteSets, TLC

(***************************************************************************)
(* Strings                                                                 *)
(***************************************************************************)
\* "." : the separator of _remove_file_extension and the hidden-entry marker
DOT == 46
\* "/" : the separator of os.path.split and os.path.join
SLASH == 47

\* None as a Construct name: no string holds the code 0
NoneName == <<0>>

\* str < str in Python 2: lexicographic by character code
StrLess(a, b) ==
    \E i \in 1..(Len(b)) :
        /\ \A j \in 1..(i-1) : j <= Len(a) /\ a[j] = b[j]
        /\ \/ i = Len(a) + 1
           \/ i <= Len(a) /\ a[i] < b[i]

\* key(x) <= key(y) for the sort key x.name: in Python 2, None sorts before
\* every string
NameLeq(a, b) ==
    IF a = NoneName THEN TRUE
    ELSE IF b = NoneName THEN FALSE
    ELSE a = b \/ StrLess(a, b)

\* s.startswith(p)
StartsWith(s, p) == Len(p) <= Len(s) /\ SubSeq(s, 1, Len(p)) = p

\* s.endswith(p)
EndsWith(s, p) == Len(p) <= Len(s) /\ SubSeq(s, Len(s) - Len(p) + 1, Len(s)) = p

\* s.rfind(c) + 1: the position after the last c, 0 when there is none
RFind1(s, c) ==
    LET hits == {i \in 1..Len(s) : s[i] = c}
    IN  IF hits = {} THEN 0 ELSE CHOOSE i \in hits : \A j \in hits : j <= i

RECURSIVE Split(_, _)
\* s.split(c): the pieces of s between the occurrences of c
Split(s, c) ==
    LET i == RFind1(s, c)
    IN  IF i = 0 THEN <<s>>
        ELSE Append(Split(SubSeq(s, 1, i - 1), c), SubSeq(s, i + 1, Len(s)))

RECURSIVE Join(_, _)
\* c.join(parts)
Join(parts, c) ==
    IF parts = <<>> THEN <<>>
    ELSE IF Len(parts) = 1 THEN parts[1]
    ELSE Join(SubSeq(parts, 1, Len(parts) - 1), c) \o <<c>> \o parts[Len(parts)]

RECURSIVE RStrip(_, _)
\* s.rstrip(c)
RStrip(s, c) ==
    IF s # <<>> /\ s[Len(s)] = c THEN RStrip(SubSeq(s, 1, Len(s) - 1), c) ELSE s

\* posixpath.split(p): <<head, tail>>
os_path_split(p) ==
    LET i    == RFind1(p, SLASH)
        head == SubSeq(p, 1, i)
        tail == SubSeq(p, i + 1, Len(p))
    IN  IF head # <<>> /\ (\E k \in 1..Len(head) : head[k] # SLASH)
        THEN <<RStrip(head, SLASH), tail>>
        ELSE <<head, tail>>

\* posixpath.join(a, b) for a relative b: an empty a adds no separator
os_path_join(a, b) ==
    IF a = <<>> THEN b
    ELSE IF a[Len(a)] = SLASH THEN a \o b
    ELSE a \o <<SLASH>> \o b

(***************************************************************************)
(* Constructs                                                              *)
(***************************************************************************)
\* Construct.__init__(name, children) of the subclass kind; children None is
\* the flag nochildren with an empty list
Construct(kind, name, children, nochildren) ==
    [kind |-> kind, name |-> name, children |-> children, nochildren |-> nochildren]

\* a children value as _handle_fields returns it: the list, or None when empty
FromList(kind, name, list) == Construct(kind, name, list, list = <<>>)

(***************************************************************************)
(* PythonConverter                                                         *)
(***************************************************************************)
\* get_code_extensions(): ("py",)
get_code_extensions == << <<112, 121>> >>

\* _remove_file_extension(filename)
remove_file_extension(filename) ==
    LET parts == Split(filename, DOT)
    IN  Join(SubSeq(parts, 1, Len(parts) - 1), DOT)

\* A syntax tree node: its type, its name (ClassDef, FunctionDef) and its
\* node-valued fields in _fields order, each a list of nodes.
Node(type, name, fields) == [type |-> type, name |-> name, fields |-> fields]
Field(fname, items) == [field |-> fname, items |-> items]

\* the items of the named field of a node (getattr(node, field))
getattr(node, fname) ==
    LET hit == {i \in 1..Len(node.fields) : node.fields[i].field = fname}
    IN  IF hit = {} THEN <<>> ELSE node.fields[CHOOSE i \in hit : TRUE].items

\* node._fields
FieldNames(node) == [i \in 1..Len(node.fields) |-> node.fields[i].field]

RECURSIVE visit(_, _)
RECURSIVE handle_fields(_, _, _)
RECURSIVE CollectItems(_, _)
RECURSIVE make_branch_parts(_, _, _)

\* _handle_fields(node, fields) before its final test: the flattened list of
\* the constructs fed back by the nodes of the named fields
handle_fields(node, fields, filename) ==
    IF fields = <<>> THEN <<>>
    ELSE CollectItems(getattr(node, Head(fields)), filename)
         \o handle_fields(node, Tail(fields), filename)

\* _visit_and_collect over the items of one field: visit feeds back a
\* construct (appended), a list (extended) or None (nothing)
CollectItems(items, filename) ==
    IF items = <<>> THEN <<>>
    ELSE visit(Head(items), filename) \o CollectItems(Tail(items), filename)

\* _make_branch altered to leave out the part of a field that yields nothing
make_branch_parts_skip_empty(node, branch_fields, filename) ==
    IF branch_fields = <<>> THEN <<>>
    ELSE LET got == handle_fields(node, <<Head(branch_fields)>>, filename)
         IN  (IF got = <<>> THEN <<>>
              ELSE << Construct("BranchPart", NoneName, got, FALSE) >>)
             \o make_branch_parts(node, Tail(branch_fields), filename)

\* _make_branch: one BranchPart per branch field
make_branch_parts(node, branch_fields, filename) ==
    IF branch_fields = <<>> THEN <<>>
    ELSE << FromList("BranchPart", NoneName,
                     handle_fields(node, <<Head(branch_fields)>>, filename)) >>
         \o make_branch_parts(node, Tail(branch_fields), filename)

\* visit altered so that generic_visit feeds nothing back
visit_generic_dropped(node, filename) ==
    CASE node.type = "Module" ->
           << FromList("Package", remove_file_extension(filename),
                       handle_fields(node, FieldNames(node), filename)) >>
      [] node.type = "ClassDef" ->
           << FromList("Class", node.name, handle_fields(node, <<"body">>, filename)) >>
      [] node.type = "FunctionDef" ->
           << FromList("Function", node.name, handle_fields(node, <<"body">>, filename)) >>
      [] node.type \in {"If", "TryExcept"} ->
           << Construct("Branch", NoneName,
                        make_branch_parts(node, <<"body", "orelse">>, filename), FALSE) >>
      [] node.type = "TryFinally" ->
           << Construct("Branch", NoneName,
                        make_branch_parts(node, <<"body", "finalbody">>, filename), FALSE) >>
      [] node.type \in {"While", "For"} ->
           << FromList("Iteration", NoneName, handle_fields(node, <<"body">>, filename)) >>
      [] OTHER -> <<>>

\* NodeVisitor.visit(node) as _visit_and_collect uses it: the constructs the
\* node contributes to the enclosing list
visit(node, filename) ==
    CASE node.type = "Module" ->
           << FromList("Package", remove_file_extension(filename),
                       handle_fields(node, FieldNames(node), filename)) >>
      [] node.type = "ClassDef" ->
           << FromList("Class", node.name, handle_fields(node, <<"body">>, filename)) >>
      [] node.type = "FunctionDef" ->
           << FromList("Function", node.name, handle_fields(node, <<"body">>, filename)) >>
      [] node.type \in {"If", "TryExcept"} ->
           << Construct("Branch", NoneName,
                        make_branch_parts(node, <<"body", "orelse">>, filename), FALSE) >>
      [] node.type = "TryFinally" ->
           << Construct("Branch", NoneName,
                        make_branch_parts(node, <<"body", "finalbody">>, filename), FALSE) >>
      [] node.type \in {"While", "For"} ->
           << FromList("Iteration", NoneName, handle_fields(node, <<"body">>, filename)) >>
      [] OTHER -> handle_fields(node, FieldNames(node), filename)


\* Statements as ast.parse builds them (Python 2 node types and _fields)
PassStmt == Node("Pass", NoneName, <<>>)
NameExpr == Node("Name", NoneName, << Field("ctx", <<Node("Load", NoneName, <<>>)>>) >>)
ClassDef(name, body) ==
    Node("ClassDef", name,
         << Field("bases", <<>>), Field("body", body), Field("decorator_list", <<>>) >>)
FunctionDef(name, body) ==
    Node("FunctionDef", name,
         << Field("args", <<Node("arguments", NoneName, <<>>)>>),
            Field("body", body), Field("decorator_list", <<>>) >>)
IfStmt(body, orelse) ==
    Node("If", NoneName,
         << Field("test", <<NameExpr>>), Field("body", body), Field("orelse", orelse) >>)
WhileStmt(body) ==
    Node("While", NoneName,
         << Field("test", <<NameExpr>>), Field("body", body), Field("orelse", <<>>) >>)
ForStmt(body) ==
    Node("For", NoneName,
         << Field("target", <<NameExpr>>), Field("iter", <<NameExpr>>),
            Field("body", body), Field("orelse", <<>>) >>)
TryFinally(body, finalbody) ==
    Node("TryFinally", NoneName, << Field("body", body), Field("finalbody", finalbody) >>)
ExceptHandler(body) ==
    Node("ExceptHandler", NoneName, << Field("type", <<>>), Field("name", <<>>),
                                       Field("body", body) >>)
TryExcept(body, handlers, orelse) ==
    Node("TryExcept", NoneName,
         << Field("body", body), Field("handlers", handlers), Field("orelse", orelse) >>)
WithStmt(body) ==
    Node("With", NoneName,
         << Field("context_expr", <<NameExpr>>), Field("optional_vars", <<>>),
            Field("body", body) >>)
Module(body) == Node("Module", NoneName, << Field("body", body) >>)

ClassC == ClassDef(<<67>>, <<PassStmt>>)
FuncF  == FunctionDef(<<102>>, <<PassStmt>>)

\* The statements the generated modules are made of: every structural node
\* type, clauses that yield constructs and clauses that yield none, and with
\* statements (a node type without a visit_ method) around structural nodes.
Statements ==
    << PassStmt,
       ClassC,
       FuncF,
       WhileStmt(<<PassStmt>>),
       IfStmt(<<PassStmt>>, <<>>),
       IfStmt(<<ClassC>>, <<>>),
       IfStmt(<<PassStmt>>, <<FuncF>>),
       IfStmt(<<ClassC>>, <<FuncF, ClassC>>),
       TryFinally(<<ClassC>>, <<PassStmt>>),
       TryFinally(<<PassStmt>>, <<FuncF>>),
       TryExcept(<<FuncF>>, <<ExceptHandler(<<ClassC>>)>>, <<>>),
       WithStmt(<<ClassC, FuncF>>),
       WithStmt(<<WithStmt(<<WhileStmt(<<PassStmt>>)>>), ClassC>>),
       WithStmt(<<PassStmt>>),
       FunctionDef(<<102>>, <<IfStmt(<<WithStmt(<<ClassC>>)>>, <<WhileStmt(<<PassStmt>>)>>)>>),
       ForStmt(<<WithStmt(<<FuncF, ClassC>>)>>),
       ClassDef(<<67>>, <<FuncF, WithStmt(<<FuncF>>)>>) >>

\* the number of statements, from the head of Statements, that the generated
\* modules draw on
MaxStatement == 16

\* The n-th generated body (n from 0): the bodies of one statement first, then
\* the bodies of two statements.
GeneratedBody(n) ==
    [i \in 1..(IF n < MaxStatement THEN 1 ELSE 2) |->
        Statements[IF n < MaxStatement THEN n + 1
                   ELSE IF i = 1 THEN ((n - MaxStatement) % MaxStatement) + 1
                   ELSE ((n - MaxStatement) \div MaxStatement) + 1]]

\* The source texts a file may hold, as ast.parse answers them: 0 does not
\* parse (SyntaxError); 1 is a module of one pass statement; 2 is a module of
\* a while loop and a class C, each with a body of one pass statement; 3 and
\* up are the generated modules.
GeneratedSources == 3..(2 + MaxStatement + MaxStatement * MaxStatement)
ast_parse(source) ==
    CASE source = 1 -> Module(<<PassStmt>>)
      [] source = 2 -> Module(<< WhileStmt(<<PassStmt>>), ClassC >>)
      [] OTHER -> Module(GeneratedBody(source - 3))

\* the sources that ast.parse accepts
Parses(source) == source >= 1

\* _convert_source(source, name): the Package, or ParseError
convert_source(source, name) ==
    IF Parses(source)
    THEN [exc |-> "None", con |-> visit(ast_parse(source), name)[1]]
    ELSE [exc |-> "ParseError", con |-> Construct("Package", NoneName, <<>>, TRUE)]

(***************************************************************************)
(* The file system: a set of entries, each the absolute path of a          *)
(* directory or of a file with its source text.                            *)
(***************************************************************************)
Entry(path, dir, content) == [path |-> path, dir |-> dir, content |-> content]

\* os.path.isdir(fullpath)
os_path_isdir(files, fullpath) == \E e \in files : e.path = fullpath /\ e.dir

\* os.listdir(dirpath): the names of the entries directly in dirpath, "in
\* arbitrary order": the order is that of their places in the given sequence
\* of all names
os_listdir(files, dirpath, order) ==
    LET InDir(name) == \E x \in files : os_path_split(x.path) = <<dirpath, name>>
    IN  SelectSeq(order, InDir)

\* sorted without its effect: the list as it is
sorted_as_listed(list) == list

RECURSIVE sorted(_)
\* sorted(list): a new list, ascending by string comparison
sorted(list) ==
    IF list = <<>> THEN <<>>
    ELSE LET i == CHOOSE k \in 1..Len(list) : \A j \in 1..Len(list) : ~StrLess(list[j], list[k])
         IN  <<list[i]>> \o sorted(SubSeq(list, 1, i - 1) \o SubSeq(list, i + 1, Len(list)))

\* convert_file(filepath): open and read the file (IOError when it is not
\* there or is a directory), then _convert_source with its base name
convert_file(files, filepath) ==
    LET hit == {e \in files : e.path = filepath /\ ~e.dir}
    IN  IF hit = {}
        THEN [exc |-> "IOError", con |-> Construct("Package", NoneName, <<>>, TRUE)]
        ELSE convert_source((CHOOSE e \in hit : TRUE).content, os_path_split(filepath)[2])

(***************************************************************************)
(* ProjectManager                                                          *)
(***************************************************************************)
\* any(map(lambda ext: fname.endswith(ext), get_code_extensions()))
IsCodeFile(fname) ==
    \E i \in 1..Len(get_code_extensions) : EndsWith(fname, get_code_extensions[i])

\* self.dot_files or not name.startswith(".")
DotFilter(dotfiles, name) == dotfiles \/ ~StartsWith(name, <<DOT>>)

RECURSIVE make_package_from_dir(_, _, _, _, _)
RECURSIVE BuildChildren(_, _, _, _, _)
RECURSIVE BuildChildren_stop_on_error(_, _, _, _, _)

\* the loop of _make_package_from_dir ending at the first file that does not
\* convert
BuildChildren_stop_on_error(files, dotfiles, dirpath, fnames, order) ==
    IF fnames = <<>> THEN <<>>
    ELSE
      LET fname    == Head(fnames)
          fullpath == os_path_join(dirpath, fname)
          rest     == BuildChildren_stop_on_error(files, dotfiles, dirpath, Tail(fnames), order)
      IN  IF ~DotFilter(dotfiles, fname) THEN rest
          ELSE IF os_path_isdir(files, fullpath)
               THEN <<make_package_from_dir(files, dotfiles, fullpath, fname, order)>> \o rest
          ELSE IF ~IsCodeFile(fname) THEN rest
          ELSE LET r == convert_file(files, fullpath)
               IN  IF r.exc = "None" THEN <<r.con>> \o rest ELSE <<>>

\* the loop of _make_package_from_dir over the sorted directory listing
BuildChildren(files, dotfiles, dirpath, fnames, order) ==
    IF fnames = <<>> THEN <<>>
    ELSE
      LET fname    == Head(fnames)
          fullpath == os_path_join(dirpath, fname)
          rest     == BuildChildren(files, dotfiles, dirpath, Tail(fnames), order)
      IN  IF ~DotFilter(dotfiles, fname) THEN rest
          ELSE IF os_path_isdir(files, fullpath)
               THEN <<make_package_from_dir(files, dotfiles, fullpath, fname, order)>> \o rest
          ELSE IF ~IsCodeFile(fname) THEN rest
          ELSE LET r == convert_file(files, fullpath)
               IN  IF r.exc = "None" THEN <<r.con>> \o rest ELSE rest

\* _make_package_from_dir(dirpath, name): pkg.children is always a list
make_package_from_dir(files, dotfiles, dirpath, name, order) ==
    Construct("Package", name,
              BuildChildren(files, dotfiles, dirpath,
                            sorted(os_listdir(files, dirpath, order)), order),
              FALSE)

RECURSIVE Insort(_, _)
\* one step of the stable sort: x goes after every element whose key is <= its own
Insort(s, x) ==
    IF s # <<>> /\ ~NameLeq(s[Len(s)].name, x.name)
    THEN Append(Insort(SubSeq(s, 1, Len(s) - 1), x), s[Len(s)])
    ELSE Append(s, x)

RECURSIVE sort_by_name(_)
\* children.sort(key=lambda x: x.name): list.sort is stable
sort_by_name(s) ==
    IF s = <<>> THEN <<>>
    ELSE Insort(sort_by_name(SubSeq(s, 1, Len(s) - 1)), s[Len(s)])

RECURSIVE PathParts(_)
\* the first loop of _get_package: the path split into package names
PathParts(path) ==
    IF path \in {<<>>, <<SLASH>>} THEN <<>>
    ELSE LET sp == os_path_split(path) IN Append(PathParts(sp[1]), sp[2])

\* the index of the first child with the given name, 0 when there is none
FirstNamed(children, name) ==
    LET hits == {i \in 1..Len(children) : children[i].name = name}
    IN  IF hits = {} THEN 0 ELSE CHOOSE i \in hits : \A j \in hits : i <= j

RECURSIVE Descend(_, _)
\* the second loop of _get_package from node curr: the position of the package
\* (child indices from curr), or the exception raised
Descend(curr, pparts) ==
    IF pparts = <<>> THEN [exc |-> "None", pos |-> <<>>]
    ELSE IF curr.nochildren THEN [exc |-> "TypeError", pos |-> <<>>]
    ELSE LET i == FirstNamed(curr.children, Head(pparts))
         IN  IF i = 0 THEN [exc |-> "FileUpdateException", pos |-> <<>>]
             ELSE LET r == Descend(curr.children[i], Tail(pparts))
                  IN  [exc |-> r.exc, pos |-> <<i>> \o r.pos]

\* _get_package(path)
get_package(proj, path) == Descend(proj, PathParts(path))

RECURSIVE NodeAt(_, _)
\* the node a position refers to
NodeAt(tree, pos) ==
    IF pos = <<>> THEN tree ELSE NodeAt(tree.children[Head(pos)], Tail(pos))

RECURSIVE WithChildren(_, _, _)
\* the tree after the node at a position had its children list set (in place)
WithChildren(tree, pos, children) ==
    IF pos = <<>> THEN [tree EXCEPT !.children = children]
    ELSE [tree EXCEPT !.children[Head(pos)] =
                          WithChildren(tree.children[Head(pos)], Tail(pos), children)]

\* del(s[i])
DelAt(s, i) == SubSeq(s, 1, i - 1) \o SubSeq(s, i + 1, Len(s))

\* what one call leaves: the tree, the trees it passed to output.render, the
\* exception that left it, and the outcome of convert_file if it was called
Outcome(proj, renders, exc, conv) ==
    [project |-> proj, renders |-> renders, exc |-> exc, conv |-> conv]

\* _create_package(path, name)
create_package(proj, path, name) ==
    LET g       == get_package(proj, path)
        package == NodeAt(proj, g.pos)
    IN  IF g.exc # "None" THEN Outcome(proj, <<>>, g.exc, "none")
        ELSE IF package.nochildren THEN Outcome(proj, <<>>, "AttributeError", "none")
        ELSE LET new == WithChildren(proj, g.pos,
                            sort_by_name(Append(package.children,
                                                Construct("Package", name, <<>>, TRUE))))
             IN  Outcome(new, <<new>>, "None", "none")

\* _remove_node without its closing render call
remove_node_no_render(proj, path, name) ==
    LET g       == get_package(proj, path)
        package == NodeAt(proj, g.pos)
        i       == FirstNamed(package.children, name)
    IN  IF g.exc # "None" THEN Outcome(proj, <<>>, g.exc, "none")
        ELSE IF package.nochildren THEN Outcome(proj, <<>>, "TypeError", "none")
        ELSE IF i = 0 THEN Outcome(proj, <<>>, "FileUpdateException", "none")
        ELSE Outcome(WithChildren(proj, g.pos, DelAt(package.children, i)),
                     <<>>, "None", "none")

\* _remove_node(path, name)
remove_node(proj, path, name) ==
    LET g       == get_package(proj, path)
        package == NodeAt(proj, g.pos)
        i       == FirstNamed(package.children, name)
    IN  IF g.exc # "None" THEN Outcome(proj, <<>>, g.exc, "none")
        ELSE IF package.nochildren THEN Outcome(proj, <<>>, "TypeError", "none")
        ELSE IF i = 0 THEN Outcome(proj, <<>>, "FileUpdateException", "none")
        ELSE LET new == WithChildren(proj, g.pos, DelAt(package.children, i))
             IN  Outcome(new, <<new>>, "None", "none")

\* _update_file_contents taking the project root for a package that
\* _get_package does not find
update_file_contents_root_fallback(proj, files, dirpath, path, filename) ==
    LET g       == get_package(proj, path)
        pos     == IF g.exc = "None" THEN g.pos ELSE <<>>
        package == NodeAt(proj, pos)
        r       == convert_file(files, os_path_join(os_path_join(dirpath, path), filename))
        i       == FirstNamed(package.children, r.con.name)
        kept    == IF i = 0 THEN package.children ELSE DelAt(package.children, i)
    IN  IF r.exc = "ParseError" THEN Outcome(proj, <<>>, "None", "ParseError")
        ELSE IF r.exc # "None" THEN Outcome(proj, <<>>, r.exc, r.exc)
        ELSE IF package.nochildren THEN Outcome(proj, <<>>, "TypeError", "ok")
        ELSE LET new == WithChildren(proj, pos, sort_by_name(Append(kept, r.con)))
             IN  Outcome(new, <<new>>, "None", "ok")

\* _update_file_contents removing the file's construct when the file does not
\* parse
update_file_contents_drop_on_error(proj, files, dirpath, path, filename) ==
    LET g       == get_package(proj, path)
        package == NodeAt(proj, g.pos)
        r       == convert_file(files, os_path_join(os_path_join(dirpath, path), filename))
        cn      == IF r.exc = "None" THEN r.con.name ELSE remove_file_extension(filename)
        i       == FirstNamed(package.children, cn)
        kept    == IF i = 0 THEN package.children ELSE DelAt(package.children, i)
    IN  IF g.exc # "None" THEN Outcome(proj, <<>>, g.exc, "none")
        ELSE IF r.exc = "ParseError"
             THEN Outcome(WithChildren(proj, g.pos, kept), <<>>, "None", "ParseError")
        ELSE IF r.exc # "None" THEN Outcome(proj, <<>>, r.exc, r.exc)
        ELSE IF package.nochildren THEN Outcome(proj, <<>>, "TypeError", "ok")
        ELSE LET new == WithChildren(proj, g.pos, sort_by_name(Append(kept, r.con)))
             IN  Outcome(new, <<new>>, "None", "ok")

\* _update_file_contents(path, filename)
update_file_contents(proj, files, dirpath, path, filename) ==
    LET g       == get_package(proj, path)
        package == NodeAt(proj, g.pos)
        r       == convert_file(files, os_path_join(os_path_join(dirpath, path), filename))
        i       == FirstNamed(package.children, r.con.name)
        kept    == IF i = 0 THEN package.children ELSE DelAt(package.children, i)
    IN  IF g.exc # "None" THEN Outcome(proj, <<>>, g.exc, "none")
        ELSE IF r.exc = "ParseError" THEN Outcome(proj, <<>>, "None", "ParseError")
        ELSE IF r.exc # "None" THEN Outcome(proj, <<>>, r.exc, r.exc)
        ELSE IF package.nochildren THEN Outcome(proj, <<>>, "TypeError", "ok")
        ELSE LET new == WithChildren(proj, g.pos, sort_by_name(Append(kept, r.con)))
             IN  Outcome(new, <<new>>, "None", "ok")

\* the hook returns without calling anything
Skipped(proj) == Outcome(proj, <<>>, "None", "none")

\* handle_create_dir without the test for a hidden name
handle_create_dir_unfiltered(proj, dotfiles, path, name) ==
    create_package(proj, path, name)

\* handle_create_dir(path, name)
handle_create_dir(proj, dotfiles, path, name) ==
    IF DotFilter(dotfiles, name) THEN create_package(proj, path, name) ELSE Skipped(proj)

\* handle_create_file(path, name)
handle_create_file(proj, files, dirpath, dotfiles, path, name) ==
    IF DotFilter(dotfiles, name)
    THEN update_file_contents(proj, files, dirpath, path, name) ELSE Skipped(proj)

\* handle_change_file(path, name)
handle_change_file(proj, files, dirpath, dotfiles, path, name) ==
    IF DotFilter(dotfiles, name)
    THEN update_file_contents(proj, files, dirpath, path, name) ELSE Skipped(proj)

\* handle_remove_dir(path, name)
handle_remove_dir(proj, dotfiles, path, name) ==
    IF DotFilter(dotfiles, name) THEN remove_node(proj, path, name) ELSE Skipped(proj)

\* handle_remove_file(path, name)
handle_remove_file(proj, dotfiles, path, name) ==
    IF DotFilter(dotfiles, name) THEN remove_node(proj, path, name) ELSE Skipped(proj)

(***************************************************************************)
(* FileMonitor                                                             *)
(***************************************************************************)
\* _rel_path(path): path[len(self.rootdir)+1:]
rel_path(rootdir, path) == SubSeq(path, Len(rootdir) + 2, Len(path))

\* the dispatch without process_IN_MOVED_FROM and process_IN_MOVED_TO
HookOf_moves_unhandled(ev) ==
    CASE ev.mask = "IN_CREATE" ->
           IF ev.dir THEN "handle_create_dir" ELSE "handle_create_file"
      [] ev.mask = "IN_DELETE" ->
           IF ev.dir THEN "handle_remove_dir" ELSE "handle_remove_file"
      [] ev.mask = "IN_MODIFY" /\ ~ev.dir -> "handle_change_file"
      [] OTHER -> "none"

\* the hook a pyinotify event is dispatched to (process_IN_*), "none" for
\* IN_MODIFY of a directory
HookOf(ev) ==
    CASE ev.mask \in {"IN_CREATE", "IN_MOVED_TO"} ->
           IF ev.dir THEN "handle_create_dir" ELSE "handle_create_file"
      [] ev.mask \in {"IN_DELETE", "IN_MOVED_FROM"} ->
           IF ev.dir THEN "handle_remove_dir" ELSE "handle_remove_file"
      [] ev.mask = "IN_MODIFY" ->
           IF ev.dir THEN "none" ELSE "handle_change_file"

\* process_IN_CREATE, process_IN_DELETE, process_IN_MODIFY,
\* process_IN_MOVED_FROM, process_IN_MOVED_TO
process_event(proj, files, rootdir, dotfiles, ev) ==
    LET path == rel_path(rootdir, ev.path)
        hook == HookOf(ev)
    IN  CASE hook = "handle_create_dir"  -> handle_create_dir(proj, dotfiles, path, ev.name)
          [] hook = "handle_create_file" ->
               handle_create_file(proj, files, rootdir, dotfiles, path, ev.name)
          [] hook = "handle_change_file" ->
               handle_change_file(proj, files, rootdir, dotfiles, path, ev.name)
          [] hook = "handle_remove_dir"  -> handle_remove_dir(proj, dotfiles, path, ev.name)
          [] hook = "handle_remove_file" -> handle_remove_file(proj, dotfiles, path, ev.name)
          [] OTHER -> Skipped(proj)

(***************************************************************************)
(* The running program: the directory, the project tree, and the events    *)
(* the notifier hands to the hooks one at a time.                          *)
(***************************************************************************)
VARIABLES
    files,      \* the project directory on disk: a set of entries
    dot_files,  \* ProjectManager.dot_files
    project,    \* ProjectManager.project
    pc,         \* "init" (constructed), "monitoring" (in notifier.loop), "crashed"
    queue,      \* the inotify events read by the notifier and not yet processed
    rendered,   \* the tree of the latest output.render call (<<>> before the first)
    last,       \* the latest hook call: hook, path, name, what it left, and the
                \* text the named file had on disk when it was called
    prev,       \* ProjectManager.project before the latest hook call
    nchanges    \* the number of changes made to the directory so far

vars == <<files, dot_files, project, pc, queue, rendered, last, prev, nchanges>>

\* the directory changes a run makes at most
MaxChanges == 2

\* ProjectManager.dirpath ("/p") and project_name ("P")
rootdir == <<47, 112>>
project_name == <<80>>

\* file and directory names
n_a    == <<97>>
n_ab   == <<97, 45, 98>>
n_h    == <<46, 104>>
n_apy  == <<97, 46, 112, 121>>
n_at   == <<97, 46, 116>>
n_bpy  == <<46, 98, 46, 112, 121>>
n_cpy  == <<99, 46, 112, 121>>

\* the source texts a file is written with
Sources == {0, 1, 2}

\* orders in which os.listdir may give the names
ListingOrders ==
    { << n_a, n_ab, n_h, n_apy, n_at, n_bpy, n_cpy >>,
      << n_cpy, n_bpy, n_at, n_apy, n_h, n_ab, n_a >>,
      << n_apy, n_cpy, n_a, n_h, n_ab, n_bpy, n_at >> }

\* the places where the run creates, writes and deletes entries
Slot(parent, name, dir) == [parent |-> parent, name |-> name, dir |-> dir]
Slots ==
    { Slot(rootdir, n_a, TRUE), Slot(rootdir, n_ab, TRUE), Slot(rootdir, n_h, TRUE),
      Slot(rootdir, n_apy, FALSE), Slot(rootdir, n_at, FALSE), Slot(rootdir, n_bpy, FALSE),
      Slot(os_path_join(rootdir, n_a), n_apy, FALSE),
      Slot(os_path_join(rootdir, n_a), n_ab, TRUE),
      Slot(os_path_join(rootdir, n_h), n_apy, FALSE),
      Slot(os_path_join(rootdir, n_h), n_a, TRUE) }

\* the directories the program is started on
Snapshots ==
    { {},
      { Entry(os_path_join(rootdir, n_a), TRUE, 0),
        Entry(os_path_join(os_path_join(rootdir, n_a), n_apy), FALSE, 1),
        Entry(os_path_join(rootdir, n_ab), TRUE, 0),
        Entry(os_path_join(rootdir, n_apy), FALSE, 2) },
      { Entry(os_path_join(rootdir, n_h), TRUE, 0),
        Entry(os_path_join(os_path_join(rootdir, n_h), n_apy), FALSE, 1),
        Entry(os_path_join(rootdir, n_bpy), FALSE, 2),
        Entry(os_path_join(rootdir, n_apy), FALSE, 1),
        Entry(os_path_join(rootdir, n_at), FALSE, 0) },
      { Entry(os_path_join(rootdir, n_a), TRUE, 0),
        Entry(os_path_join(rootdir, n_at), FALSE, 1) },
      { Entry(os_path_join(rootdir, n_ab), TRUE, 0),
        Entry(os_path_join(rootdir, n_apy), FALSE, 0),
        Entry(os_path_join(rootdir, n_cpy), FALSE, 2) } }

NoCall ==
    [hook |-> "none", path |-> <<>>, name |-> <<>>, exc |-> "None", renders |-> 0,
     conv |-> "none", disk |-> -1]

\* ProjectManager.__init__
Init ==
    /\ files \in Snapshots
    /\ dot_files \in BOOLEAN
    /\ \E order \in ListingOrders :
          project = make_package_from_dir(files, dot_files, rootdir, project_name, order)
    /\ pc = "init"
    /\ queue = <<>>
    /\ rendered = <<>>
    /\ last = NoCall
    /\ prev = project
    /\ nchanges = 0

\* ProjectManager.manage: render the built tree, then run the file monitor
Manage ==
    /\ pc = "init"
    /\ rendered' = <<project>>
    /\ pc' = "monitoring"
    /\ UNCHANGED <<files, dot_files, project, queue, last, prev, nchanges>>

\* a pyinotify event
Event(mask, path, name, dir) == [mask |-> mask, path |-> path, name |-> name, dir |-> dir]

Exists(path) == \E e \in files : e.path = path

\* the source text of the file at a path, -1 when no file is there
OnDisk(path) ==
    LET hit == {e \in files : e.path = path /\ ~e.dir}
    IN  IF hit = {} THEN -1 ELSE (CHOOSE e \in hit : TRUE).content
IsDir(path) == path = rootdir \/ os_path_isdir(files, path)

\* the entries below a directory
Below(path) == {e \in files : StartsWith(e.path, path \o <<SLASH>>)}

\* An entry appears in a watched directory, created (IN_CREATE) or moved in
\* (IN_MOVED_TO); a file appears with some source text.
FsCreate(s, c, mask) ==
    /\ pc = "monitoring"
    /\ nchanges < MaxChanges
    /\ IsDir(s.parent)
    /\ ~Exists(os_path_join(s.parent, s.name))
    /\ files' = files \cup {Entry(os_path_join(s.parent, s.name), s.dir, c)}
    /\ queue' = Append(queue, Event(mask, s.parent, s.name, s.dir))
    /\ nchanges' = nchanges + 1
    /\ UNCHANGED <<dot_files, project, pc, rendered, last, prev>>

\* A file is written with another source text (IN_MODIFY).
FsWrite(s, c) ==
    /\ pc = "monitoring"
    /\ nchanges < MaxChanges
    /\ ~s.dir
    /\ \E e \in files :
          /\ e.path = os_path_join(s.parent, s.name)
          /\ ~e.dir
          /\ e.content # c
          /\ files' = (files \ {e}) \cup {Entry(e.path, FALSE, c)}
    /\ queue' = Append(queue, Event("IN_MODIFY", s.parent, s.name, FALSE))
    /\ nchanges' = nchanges + 1
    /\ UNCHANGED <<dot_files, project, pc, rendered, last, prev>>

\* An entry disappears: a file or an empty directory is deleted (IN_DELETE),
\* or a file or a directory with all it holds is moved out (IN_MOVED_FROM).
FsDelete(s, mask) ==
    /\ pc = "monitoring"
    /\ nchanges < MaxChanges
    /\ \E e \in files :
          /\ e.path = os_path_join(s.parent, s.name)
          /\ e.dir = s.dir
          /\ mask = "IN_DELETE" => Below(e.path) = {}
          /\ files' = files \ ({e} \cup Below(e.path))
    /\ queue' = Append(queue, Event(mask, s.parent, s.name, s.dir))
    /\ nchanges' = nchanges + 1
    /\ UNCHANGED <<dot_files, project, pc, rendered, last, prev>>

\* Notifier.loop: the next event is dispatched to its hook.  Nothing between
\* the hook and the loop catches an exception: one that leaves the hook ends
\* the loop and manage().
Deliver ==
    /\ pc = "monitoring"
    /\ queue # <<>>
    /\ LET ev == Head(queue)
           o  == process_event(project, files, rootdir, dot_files, ev)
       IN  /\ project' = o.project
           /\ prev' = project
           /\ rendered' = IF o.renders = <<>> THEN rendered ELSE <<o.renders[Len(o.renders)]>>
           /\ last' = [hook |-> HookOf(ev), path |-> rel_path(rootdir, ev.path),
                       name |-> ev.name, exc |-> o.exc, renders |-> Len(o.renders),
                       conv |-> o.conv,
                       disk |-> OnDisk(os_path_join(ev.path, ev.name))]
           /\ pc' = IF o.exc = "None" THEN "monitoring" ELSE "crashed"
    /\ queue' = Tail(queue)
    /\ UNCHANGED <<files, dot_files, nchanges>>

Next ==
    \/ Manage
    \/ \E s \in Slots, mask \in {"IN_CREATE", "IN_MOVED_TO"} :
          \E c \in (IF s.dir THEN {0} ELSE Sources) : FsCreate(s, c, mask)
    \/ \E s \in Slots, c \in Sources : FsWrite(s, c)
    \/ \E s \in Slots, mask \in {"IN_DELETE", "IN_MOVED_FROM"} : FsDelete(s, mask)
    \/ Deliver

Spec == Init /\ [][Next]_vars

\* The converter on its own: the project of an empty directory is being
\* monitored, a module file has just been created in the directory and its
\* IN_CREATE event waits in the queue.
ConvInit ==
    /\ \E c \in GeneratedSources :
          files = { Entry(os_path_join(rootdir, n_apy), FALSE, c) }
    /\ dot_files = FALSE
    /\ \E order \in ListingOrders :
          project = make_package_from_dir({}, FALSE, rootdir, project_name, order)
    /\ pc = "monitoring"
    /\ queue = << Event("IN_CREATE", rootdir, n_apy, FALSE) >>
    /\ rendered = <<project>>
    /\ last = NoCall
    /\ prev = project
    /\ nchanges = 1

ConvNext == Deliver

ConvSpec == ConvInit /\ [][ConvNext]_vars

(***************************************************************************)
(* Properties                                                              *)
(***************************************************************************)
\* a hook was called by the latest step
Handled == last.hook # "none"

\* the latest hook call passed the hidden-entry test of its hook
Passed == Handled /\ (dot_files \/ last.name[1] # DOT)

\* the latest hook call was for a hidden entry
Hidden == Handled /\ last.name[1] = DOT

\* the package names of a project-relative path
Segments(path) == IF path = <<>> THEN <<>> ELSE Split(path, SLASH)

RECURSIVE Locate(_, _)
\* where a path leads in a tree: each name in turn is the first child of that
\* name; ok is FALSE when a name has no such child
Locate(node, segs) ==
    IF segs = <<>> THEN [ok |-> TRUE, pos |-> <<>>]
    ELSE LET hits == {i \in 1..Len(node.children) : node.children[i].name = Head(segs)}
         IN  IF hits = {} THEN [ok |-> FALSE, pos |-> <<>>]
             ELSE LET i == CHOOSE k \in hits : \A j \in hits : k <= j
                      r == Locate(node.children[i], Tail(segs))
                  IN  [ok |-> r.ok, pos |-> <<i>> \o r.pos]

\* the resolution of the latest call's parent path in the tree it was given
Res == Locate(prev, Segments(last.path))
Resolved == Res.ok

\* the parent package of the latest call, before and after it
ParentBefore == NodeAt(prev, Res.pos)
ParentAfter == NodeAt(project, Res.pos)

\* the latest call was a file-created or file-modified hook
FileUpdate == last.hook \in {"handle_create_file", "handle_change_file"}

\* the latest call was a removal hook
Removal == last.hook \in {"handle_remove_file", "handle_remove_dir"}

\* the name of the construct that stands for a file or a directory
ConstructName(name, dir) ==
    IF dir THEN name
    ELSE LET dots == {i \in 1..Len(name) : name[i] = DOT}
         IN  IF dots = {} THEN <<>>
             ELSE SubSeq(name, 1, (CHOOSE i \in dots : \A j \in dots : j <= i) - 1)

\* the positions of the children with a name
Named(children, name) == {i \in 1..Len(children) : children[i].name = name}

RECURSIVE Nodes(_)
\* every node of a tree
Nodes(tree) == {tree} \cup UNION {Nodes(tree.children[i]) : i \in 1..Len(tree.children)}

\* the children of a package that stand for files and directories
IsPackage(c) == c.kind = "Package"
PackageChildren(node) == SelectSeq(node.children, IsPackage)

\* a list of constructs is in non-decreasing order of name
SortedByName(s) ==
    \A i, j \in 1..Len(s) : i < j => (s[i].name = s[j].name \/ StrLess(s[i].name, s[j].name))

\* no two constructs of a list have the same name
DistinctNames(s) == \A i, j \in 1..Len(s) : i # j => s[i].name # s[j].name

\* a Package that was converted from a file: it has a child that is not a
\* Package (the Package of a directory has Packages only)
FromFile(c) == \E k \in 1..Len(c.children) : ~IsPackage(c.children[k])

\* the children of the parent, before the latest call, that stand for the
\* entry the call names: of its construct name, and from a file or not as the
\* entry is
Targets ==
    {i \in Named(ParentBefore.children,
                 ConstructName(last.name, last.hook = "handle_remove_dir")) :
        FromFile(ParentBefore.children[i]) = (last.hook = "handle_remove_file")}

\* C1: a Removed or MovedFrom event for a file or directory that has a child
\* in the resolved parent (the file X.py as the Package X) removes exactly that
\* child, with its subtree, and leaves every other child as it was.
C1_RemovedChildIsDeleted ==
    (Removal /\ Passed /\ Resolved /\ Targets # {})
    => \E i \in Targets :
          project = WithChildren(prev, Res.pos, DelAt(ParentBefore.children, i))

\* C2: in every reachable state the children of every Package that stand for
\* files and directories are in non-decreasing order of name.
C2_ChildrenSorted ==
    \A n \in Nodes(project) : IsPackage(n) => SortedByName(PackageChildren(n))

\* C3: in every reachable state no Package has two children, standing for
\* files or directories, with the same name.
C3_NoDuplicateNames ==
    \A n \in Nodes(project) : IsPackage(n) => DistinctNames(PackageChildren(n))

\* C4: after a file-created or file-modified event whose conversion succeeds
\* and whose root name was already among the parent's children, the parent has
\* exactly one child of that name, and it is the newly converted construct.
C4_UpdateLeavesOneChild ==
    LET cn  == ConstructName(last.name, FALSE)
        new == convert_source(last.disk, last.name).con
    IN  (FileUpdate /\ Passed /\ Resolved /\ last.conv = "ok"
           /\ Named(ParentBefore.children, cn) # {})
        => /\ Cardinality(Named(ParentAfter.children, cn)) = 1
           /\ \A i \in Named(ParentAfter.children, cn) : ParentAfter.children[i] = new

\* C5: when an event's parent path does not resolve, or a removal names a
\* child the resolved parent does not have, no exception leaves the hook and
\* the event loop goes on.
C5_NoFailureEscapes ==
    (Passed /\ (~Resolved \/ (Removal /\ Named(ParentBefore.children, last.name) = {})))
    => (last.exc = "None" /\ pc = "monitoring")

\* C6: an event whose parent path does not resolve leaves the whole tree as
\* it was.
C6_UnresolvedParentLeavesTree == (Handled /\ ~Resolved) => project = prev

\* C6 witness: a hook was called (and not skipped as hidden) with a parent path
\* that does not resolve
C6_Witness == Passed /\ ~Resolved /\ project = prev

\* C7 as stated: every accepted event makes exactly one render call, with the
\* current tree, also when the conversion fails with ParseError.
C7_EveryAcceptedEventRenders ==
    (Passed /\ last.exc = "None") => (last.renders = 1 /\ rendered = <<project>>)

\* C7 as amended: an accepted event (not skipped as hidden, no exception)
\* makes exactly one render call, with the current tree after its change,
\* unless its conversion failed with ParseError: then it makes none.
C7_RenderUnlessParseError ==
    (Passed /\ last.exc = "None")
    => IF last.conv = "ParseError" THEN last.renders = 0
       ELSE last.renders = 1 /\ rendered = <<project>>

\* C7 witness: an event changed the tree and rendered it
C7_Witness ==
    Passed /\ last.exc = "None" /\ last.renders = 1 /\ project # prev
    /\ rendered = <<project>>

\* C8: a file-created or file-modified event for a file whose text does not
\* parse leaves the whole tree as it was.
C8_ParseErrorLeavesTree ==
    (FileUpdate /\ Passed /\ Resolved /\ last.disk # -1 /\ ~Parses(last.disk))
    => (project = prev /\ last.conv = "ParseError")

\* C8 witness: the file that no longer parses has a construct in the parent,
\* which is kept
C8_Witness ==
    /\ last.hook = "handle_change_file" /\ Passed /\ Resolved
    /\ last.disk # -1 /\ ~Parses(last.disk)
    /\ Named(ParentAfter.children, ConstructName(last.name, FALSE)) # {}

\* C9: a file-created, file-modified or moved-in event for a file whose
\* extension is not one of the converter's is not converted and leaves the
\* tree as it was.
C9_UnrecognizedExtensionIgnored ==
    (FileUpdate /\ ~(\E i \in 1..Len(get_code_extensions) :
                        EndsWith(last.name, get_code_extensions[i])))
    => (project = prev /\ last.conv = "none")

\* the entries none of whose path names starts with "."
Visible(fs) ==
    {e \in fs : \A i \in 1..Len(Split(e.path, SLASH)) :
                   LET seg == Split(e.path, SLASH)[i] IN seg = <<>> \/ seg[1] # DOT}

\* no node of the tree has a name that starts with "."
HiddenFree(tree) == \A n \in Nodes(tree) : n.name = <<>> \/ n.name[1] # DOT

\* the hidden directories and parsing code files directly in the project
\* directory, by the name of their construct
HiddenInRoot ==
    {ConstructName(os_path_split(e.path)[2], e.dir) :
        e \in {x \in files : /\ os_path_split(x.path)[1] = rootdir
                             /\ os_path_split(x.path)[2][1] = DOT
                             /\ (x.dir \/ (EndsWith(x.path, <<112, 121>>)
                                           /\ x.content \in {1, 2}))}}

\* C10: with dot_files false no node for an entry whose name starts with "."
\* is ever in the tree (the build is the build of the directory without its
\* hidden entries, and an event for a hidden entry changes nothing); with
\* dot_files true the build, the directory-created hook and the file hooks
\* insert such an entry.
C10_HiddenEntries ==
    /\ ~dot_files =>
          /\ HiddenFree(project)
          /\ Hidden => project = prev
          /\ pc = "init" =>
                \A order \in ListingOrders :
                   project = make_package_from_dir(Visible(files), TRUE, rootdir, project_name, order)
    /\ dot_files =>
          /\ pc = "init" => \A cn \in HiddenInRoot : Named(project.children, cn) # {}
          /\ (Hidden /\ last.hook = "handle_create_dir" /\ last.exc = "None")
                => Named(ParentAfter.children, last.name) # {}
          /\ (Hidden /\ FileUpdate /\ last.exc = "None" /\ last.conv = "ok")
                => Named(ParentAfter.children, ConstructName(last.name, FALSE)) # {}

\* C10 witness: with dot_files false, a hidden directory was created in the
\* project directory and its event was handled
C10_Witness ==
    ~dot_files /\ Hidden /\ last.hook = "handle_create_dir" /\ Resolved
    /\ HiddenFree(project)

\* the entries directly in the project directory that the build has a child
\* for: not hidden (unless dot_files), and a directory or a code file whose
\* text parses
BuiltFromRoot ==
    {e \in files : /\ os_path_split(e.path)[1] = rootdir
                   /\ (dot_files \/ os_path_split(e.path)[2][1] # DOT)
                   /\ (e.dir \/ (EndsWith(e.path, <<112, 121>>) /\ e.content \in {1, 2}))}

\* the code files directly in the project directory whose text does not parse
FailingInRoot ==
    {e \in files : /\ os_path_split(e.path)[1] = rootdir
                   /\ (dot_files \/ os_path_split(e.path)[2][1] # DOT)
                   /\ ~e.dir /\ EndsWith(e.path, <<112, 121>>) /\ e.content = 0}

\* C11: the initial build leaves out a code file that does not parse and goes
\* on: every directory and every code file that parses has its child in the
\* built tree, and the tree has no other child.
C11_BuildOmitsFailingFile ==
    pc = "init" =>
       /\ \A e \in BuiltFromRoot :
             Named(project.children, ConstructName(os_path_split(e.path)[2], e.dir)) # {}
       /\ Len(project.children) = Cardinality(BuiltFromRoot)

\* C11 witness: the tree was built from a directory with a code file that does
\* not parse, a code file that parses and a directory
C11_Witness ==
    /\ pc = "init"
    /\ FailingInRoot # {}
    /\ \E e \in BuiltFromRoot : e.dir
    /\ \E e \in BuiltFromRoot : ~e.dir
    /\ Len(project.children) = Cardinality(BuiltFromRoot)


(***************************************************************************)
(* The converter's output against the syntax tree                          *)
(***************************************************************************)
\* the latest call converted a file and put its Package into the root
ConvDone == last.exc = "None" /\ last.conv = "ok" /\ last.path = <<>>
Converted ==
    project.children[CHOOSE i \in Named(project.children, remove_file_extension(last.name)) : TRUE]
Parsed == ast_parse(last.disk)

\* the items of the fields of the given names, in field order
RECURSIVE ItemsIn(_, _)
ItemsIn(fields, names) ==
    IF fields = <<>> THEN <<>>
    ELSE (IF Head(fields).field \in names THEN Head(fields).items ELSE <<>>)
         \o ItemsIn(Tail(fields), names)
AllNames(node) == {node.fields[i].field : i \in 1..Len(node.fields)}

\* a construct over a list of children, its children absent when the list is empty
Holder(kind, name, list) ==
    [kind |-> kind, name |-> name, children |-> list, nochildren |-> list = <<>>]

\* The constructs a list of statements stands for: a structural statement is
\* one construct over the constructs of its body, a branching statement is a
\* Branch of one BranchPart per clause in clause order, any other node
\* stands for the constructs found in its fields.
RECURSIVE Constructs(_)
Constructs(items) ==
    IF items = <<>> THEN <<>>
    ELSE LET n     == Head(items)
             body  == Constructs(ItemsIn(n.fields, {"body"}))
             parts(other) ==
                 << Holder("BranchPart", NoneName, body),
                    Holder("BranchPart", NoneName, Constructs(ItemsIn(n.fields, {other}))) >>
             one   == CASE n.type = "ClassDef" -> << Holder("Class", n.name, body) >>
                        [] n.type = "FunctionDef" -> << Holder("Function", n.name, body) >>
                        [] n.type \in {"While", "For"} -> << Holder("Iteration", NoneName, body) >>
                        [] n.type \in {"If", "TryExcept"} ->
                             << [kind |-> "Branch", name |-> NoneName,
                                 children |-> parts("orelse"), nochildren |-> FALSE] >>
                        [] n.type = "TryFinally" ->
                             << [kind |-> "Branch", name |-> NoneName,
                                 children |-> parts("finalbody"), nochildren |-> FALSE] >>
                        [] OTHER -> Constructs(ItemsIn(n.fields, AllNames(n)))
         IN  one \o Constructs(Tail(items))

\* C12 as stated: a clause that yields no construct has no BranchPart, so
\* every BranchPart of a converted module holds at least one construct.
C12_NoEmptyBranchPart ==
    ConvDone => \A n \in Nodes(Converted) : n.kind = "BranchPart" => n.children # <<>>

\* C12 as amended: every Branch of a converted module has one BranchPart per
\* clause of its statement, in clause order, whether or not the clause yields
\* a construct; a BranchPart holds the constructs of its clause, and the
\* BranchPart of a clause that yields none has no children.
C12_OnePartPerClause ==
    ConvDone => /\ Converted.children = Constructs(ItemsIn(Parsed.fields, {"body"}))
                /\ \A n \in Nodes(Converted) :
                      n.kind = "Branch" =>
                         /\ Len(n.children) = 2
                         /\ \A i \in 1..2 : n.children[i].kind = "BranchPart"

\* C12 witness: an if statement whose body yields a class and whose missing else yields
\* nothing has been converted
C12_Witness ==
    /\ ConvDone
    /\ \E n \in Nodes(Converted) :
          /\ n.kind = "Branch"
          /\ n.children[1].children # <<>>
          /\ n.children[2].nochildren

\* the node types that have a visit_ method
IsStructural(n) ==
    n.type \in {"Module", "ClassDef", "FunctionDef", "If", "TryExcept",
                "TryFinally", "While", "For"}

\* A list of nodes with every node that is not structural replaced, in
\* place, by the nodes of its fields, and so on down the tree.
RECURSIVE Splice(_)
RECURSIVE SpliceFields(_)
Splice(items) ==
    IF items = <<>> THEN <<>>
    ELSE LET n == Head(items)
         IN  (IF IsStructural(n) THEN << Node(n.type, n.name, SpliceFields(n.fields)) >>
              ELSE Splice(ItemsIn(n.fields, AllNames(n))))
             \o Splice(Tail(items))
SpliceFields(fields) ==
    [i \in 1..Len(fields) |-> Field(fields[i].field, Splice(fields[i].items))]

\* C13: a node that is not structural contributes no construct of its own;
\* the constructs found through it are those of the tree in which its
\* structural descendants take its place, in the same order.
C13_GenericNodesAreTransparent ==
    ConvDone => Converted = visit(Splice(<<Parsed>>)[1], last.name)[1]

\* C13 witness: a module of two statements, one of them a with statement around two or
\* more structural statements, has been converted
C13_Witness ==
    /\ ConvDone
    /\ LET body == ItemsIn(Parsed.fields, {"body"})
       IN  /\ Len(body) = 2
           /\ \E i \in 1..2 : body[i].type = "With" /\ Len(Splice(<<body[i]>>)) >= 2
           /\ Len(Converted.children) = Len(Splice(body))
           /\ Len(Converted.children) >= 3

(***************************************************************************)
(* Moves against creations and removals                                    *)
(***************************************************************************)
\* what the monitor does with the event, from the present tree and directory
Effect(ev) == process_event(project, files, rootdir, dot_files, ev)
Pending == {queue[i] : i \in 1..Len(queue)}
WithMask(ev, mask) == [ev EXCEPT !.mask = mask]

\* C14: from every tree, an IN_MOVED_FROM event does to the tree, and renders,
\* what the IN_DELETE event of the same path, name and directory flag does,
\* and an IN_MOVED_TO event what the IN_CREATE event does.
C14_MoveIsRemoveOrCreate ==
    \A ev \in Pending :
       /\ ev.mask \in {"IN_MOVED_FROM", "IN_DELETE"} =>
             Effect(WithMask(ev, "IN_MOVED_FROM")) = Effect(WithMask(ev, "IN_DELETE"))
       /\ ev.mask \in {"IN_MOVED_TO", "IN_CREATE"} =>
             Effect(WithMask(ev, "IN_MOVED_TO")) = Effect(WithMask(ev, "IN_CREATE"))

\* C14 witness: a move out of the directory and a move into it are pending, and each
\* changes the tree and renders it
C14_Witness ==
    /\ pc = "monitoring"
    /\ \E ev \in Pending :
          /\ ev.mask = "IN_MOVED_FROM"
          /\ Effect(ev).project # project /\ Effect(ev).renders # <<>>
    /\ \E ev \in Pending :
          /\ ev.mask = "IN_MOVED_TO"
          /\ Effect(ev).project # project /\ Effect(ev).renders # <<>>

(***************************************************************************)
(* The build run again                                                     *)
(***************************************************************************)
\* C15: the build of a directory gives the same tree each time it is run,
\* in whatever order the directory is listed to it: the tree built at the
\* start is the tree of every other run over the same directory, hidden-entry
\* setting and converter.
C15_BuildIsRepeatable ==
    pc = "init" =>
       \A order \in ListingOrders :
          project = make_package_from_dir(files, dot_files, rootdir, project_name, order)

\* C15 witness: a directory of three or more entries, one of them a directory with an
\* entry of its own, was built, and two runs are given its names in
\* different orders
C15_Witness ==
    /\ pc = "init"
    /\ Len(project.children) >= 3
    /\ \E i \in 1..Len(project.children) : project.children[i].children # <<>>
    /\ \E o1, o2 \in ListingOrders :
          os_listdir(files, rootdir, o1) # os_listdir(files, rootdir, o2)

(***************************************************************************)
(* Events in a directory that was created while monitoring                 *)
(***************************************************************************)
\* the latest call was a directory-created event that put a new Package, the
\* only child of its name, into its parent, and the next event to be handled
\* is for an entry of that directory
NewPackagePath == os_path_join(last.path, last.name)
InNewPackage ==
    /\ pc = "monitoring"
    /\ last.hook = "handle_create_dir" /\ last.exc = "None"
    /\ Passed /\ Resolved
    /\ Named(ParentBefore.children, last.name) = {}
    /\ queue # <<>>
    /\ rel_path(rootdir, Head(queue).path) = NewPackagePath
    /\ DotFilter(dot_files, Head(queue).name)

\* C16: after a directory-created event has put the empty Package D into its
\* parent, an event in D is applied as in any package: a file-created event
\* for a source file that parses makes the file's construct a child of D, a
\* directory-created event adds a child Package to D, and a removal (of a
\* name D does not have) fails as node not found and leaves the tree.
C16_EmptyPackageTakesEvents ==
    InNewPackage =>
       LET ev   == Head(queue)
           o    == Effect(ev)
           D    == NodeAt(o.project, Locate(project, Segments(NewPackagePath)).pos)
           text == OnDisk(os_path_join(ev.path, ev.name))
       IN  /\ (HookOf(ev) = "handle_create_file" /\ IsCodeFile(ev.name) /\ text \in {1, 2})
                 => /\ o.exc = "None"
                    /\ Named(D.children, ConstructName(ev.name, FALSE)) # {}
           /\ HookOf(ev) = "handle_create_dir"
                 => /\ o.exc = "None"
                    /\ Named(D.children, ev.name) # {}
           /\ HookOf(ev) \in {"handle_remove_file", "handle_remove_dir"}
                 => /\ o.exc = "FileUpdateException"
                    /\ o.project = project

(***************************************************************************)
(* The live tree against the build of the directory as it is now           *)
(***************************************************************************)
RECURSIVE Normal(_)
\* a tree with absent children read as an empty list of children
Normal(tree) ==
    [kind |-> tree.kind, name |-> tree.name, nochildren |-> FALSE,
     children |-> [i \in 1..Len(tree.children) |-> Normal(tree.children[i])]]

\* every file of the directory parses
AllValid == \A e \in files : e.dir \/ Parses(e.content)

\* C17: once every event of the changes made to the directory has been
\* handled, and every file parses, the live tree is the tree the build gives
\* for the directory as it is now (absent and empty children alike).
C17_LiveTreeIsTheBuild ==
    (pc = "monitoring" /\ queue = <<>> /\ AllValid) =>
       \A order \in ListingOrders :
          Normal(project) =
             Normal(make_package_from_dir(files, dot_files, rootdir, project_name, order))

(***************************************************************************)
(* A file that is gone when its event is handled                           *)
(***************************************************************************)
\* the latest call was for a code file that was not on disk when it was made
FileGone == FileUpdate /\ Passed /\ Resolved /\ IsCodeFile(last.name) /\ last.disk = -1

\* C18: a file-created or file-modified event whose file is no longer there
\* when the event is handled is dropped: the tree is left as it was and no
\* exception leaves the hook.
C18_MissingFileIsDropped ==
    FileGone => /\ last.exc = "None"
                /\ pc # "crashed"
                /\ project = prev

(***************************************************************************)
(* A file and a directory of one construct name                            *)
(***************************************************************************)
\* a Package that can only be a directory's: it has children, all Packages
DirWithEntries(c) ==
    /\ IsPackage(c)
    /\ c.children # <<>>
    /\ \A k \in 1..Len(c.children) : IsPackage(c.children[k])

\* the child is among the children of the parent after the latest call
Kept(c) == \E j \in 1..Len(ParentAfter.children) : ParentAfter.children[j] = c

\* a file update leaves every child that does not stand for the file
UpdateKeepsOthers ==
    (FileUpdate /\ Passed /\ Resolved /\ IsCodeFile(last.name)
        /\ last.exc = "None" /\ last.conv = "ok") =>
       \A i \in 1..Len(ParentBefore.children) :
          LET c == ParentBefore.children[i]
          IN  (c.name # ConstructName(last.name, FALSE) \/ DirWithEntries(c)) => Kept(c)

\* the removal of a directory leaves every Package that was made from a file
RemoveDirKeepsFiles ==
    (last.hook = "handle_remove_dir" /\ Passed /\ Resolved /\ last.exc = "None") =>
       \A i \in 1..Len(ParentBefore.children) :
          FromFile(ParentBefore.children[i]) => Kept(ParentBefore.children[i])

\* C19: a file-created or file-modified event for X.py that succeeds changes
\* only the child that stands for that file, every other child of the parent
\* (a directory's Package named X among them) stays with its subtree; and
\* the removal of directory X never removes the Package made from X.py.
C19_FileAndDirectoryKeptApart == UpdateKeepsOthers /\ RemoveDirKeepsFiles
=========================================================================
